---- MODULE Spec2Model ----
(***************************************************************************)
(* Model of the jobs scraper: three successive scripts of one engine.      *)
(*   "index"    src/index.js          offset crawl, direct store,          *)
(*                                     deactivate-all then upsert per job  *)
(*   "part000"  src/unnamed/part_000  offset crawl with page cap, direct   *)
(*                                     store, chunked upsert then          *)
(*                                     deactivate-by-watermark             *)
(*   "part001"  src/unnamed/part_001  offset or next-button crawl,         *)
(*                                     external ingestion sink             *)
(* SpecStore drives updateDatabase of the two direct-store scripts over a  *)
(* shared jobs table; SpecCrawl drives scrapeJobs / scrapeAll of the three *)
(* scripts against a site whose answers are nondeterministic.              *)
(***************************************************************************)
EXTENDS Integers, Sequences, FiniteSets, TLC

VARIABLES
  script,       \* which script runs: "index", "part000", "part001"
  mode,         \* PAGINATION_MODE of part001: "offset" or "next"
  \* ---- the store (supabase table 'jobs') and updateDatabase
  table,        \* url -> persisted row
  clock,        \* the wall clock read by new Date()
  payload,      \* the snapshot handed to updateDatabase / built by the crawl
  upc,          \* position inside updateDatabase
  idx,          \* loop variable of the upsert loop (job index / chunk start)
  pre,          \* history: the table when the run started
  err,          \* history: some store operation of this run reported an error
  ops,          \* history: the store operations this run issued, in order
  runs,         \* number of runs started
  seeded,       \* history: the table held rows before the first run
  \* ---- the crawl
  cpc,          \* position inside scrapeJobs / scrapeAll
  browser, context, page,   \* resources: "none", "open", "closed"
  allJobsMap,   \* the JS Map href -> record, as its insertion-ordered entries
  pageIndex,    \* for-loop variable of part000 / part001 (offset mode)
  pageOffset,   \* pageOffset of index.js
  p,            \* for-loop variable of part001's next mode
  seenOffsets,  \* part000's Set of visited offsets
  loads,        \* history: offsets of the page loads issued, in order
  sizes,        \* history: length of the batch each extraction returned
  firstSeen,    \* history: links in the order of their first sighting
  lastSeen,     \* history: link -> raw record of its last sighting
  ctl,          \* history: the site's last answer about the next control
  grew,         \* history: the last merged batch brought a new link
  resighted,    \* history: some link was sighted again with other fields
  released,     \* history: the resources closed, in order
  outcome,      \* how the try block ended: "none", "return", "throw"
  \* ---- the site behind a next-button crawl
  site,         \* "free" (any answer), or the pages of a site with one URL
  shown,        \* the page of that site the browser shows (0: nothing loaded)
  \* ---- main()
  mpc,          \* position inside the script's top level and main()
  creds,        \* the sink credentials are set in the environment
  exitCode,     \* process exit code, -1 while running
  logged,       \* the success line was logged
  artifact,     \* public/jobs.json was written
  posts,        \* POSTs sent to the ingestion endpoint
  \* ---- one call of scrapePage, wait by wait
  ppc,          \* position inside scrapePage
  waits,        \* history: the waits that timed out during the call
  pageResult,   \* what the call returned or threw
  \* ---- two concurrent runs of part000's updateDatabase
  conc,         \* run -> its position, loop variable and snapshot
  \* ---- the text helpers
  input,        \* the string (or Null) handed to the helper
  output        \* what norm and the scripts' extractCountry returned

storeVars == <<table, clock, payload, upc, idx, pre, err, ops, runs, seeded>>
crawlVars == <<cpc, browser, context, page, allJobsMap, pageIndex, pageOffset, p,
               seenOffsets, loads, sizes, firstSeen, lastSeen, ctl, grew,
               resighted, released, outcome>>
siteVars == <<site, shown>>
mainVars == <<mpc, creds, exitCode, logged, artifact, posts>>
pageVars == <<ppc, waits, pageResult>>
textVars == <<input, output>>
moreVars == <<siteVars, mainVars, pageVars, conc, textVars>>
vars == <<script, mode, storeVars, crawlVars, moreVars>>

(***************************************************************************)
(* Bounds of the model.                                                    *)
(***************************************************************************)
Links == {"A", "B", "C"}          \* the canonical links a site can show
PAGE_SIZE == 2                    \* 10 in the scripts (env PAGE_SIZE in part001)
MAX_PAGES == 3                    \* 60 in part000 / part001 (env MAX_PAGES)
CHUNK == 2                        \* 500 in part000
MaxClock == 3                     \* last clock value the model reads
MaxStr == 4                       \* longest text handed to the text helpers
MaxSkew == 2                      \* largest updated_at a pre-existing row carries

Null == <<"null">>                \* JS null / undefined (no text is this one)

Min(a, b) == IF a <= b THEN a ELSE b

Range(s) == {s[k] : k \in 1..Len(s)}

(***************************************************************************)
(* Text normaliser: norm / normaliseText.  Strings are sequences of        *)
(* characters.                                                             *)
(***************************************************************************)
IsWs(c) == c \in {" ", "\t", "\n"}

CollapseEach(s) == [k \in 1..Len(s) |-> IF IsWs(s[k]) THEN " " ELSE s[k]]

RECURSIVE DropWs(_)
DropWs(s) ==
  IF s = <<>> THEN <<>>
  ELSE IF IsWs(Head(s)) THEN DropWs(Tail(s)) ELSE s

RECURSIVE CollapseWs(_)
\* s.replace(/\s+/g, ' ')
CollapseWs(s) ==
  IF s = <<>> THEN <<>>
  ELSE IF IsWs(Head(s)) THEN <<" ">> \o CollapseWs(DropWs(Tail(s)))
  ELSE <<Head(s)>> \o CollapseWs(Tail(s))

Reverse(s) == [k \in 1..Len(s) |-> s[Len(s) + 1 - k]]

\* String.prototype.trim
Trim(s) == Reverse(DropWs(Reverse(DropWs(s))))

norm(s) == Trim(CollapseWs(IF s = Null THEN <<>> ELSE s))

\* titles as the page shows them (textContent.trim(): trimmed, non-empty)
RawTitles == { <<"a">>, <<"b", "\t", " ", "c">> }

Titles == {norm(t) : t \in RawTitles}

(***************************************************************************)
(* The store: table 'jobs', unique key url.                                *)
(***************************************************************************)
Absent == [present |-> FALSE, title |-> <<>>, isActive |-> FALSE, updatedAt |-> 0]

Row(title, active, at) ==
  [present |-> TRUE, title |-> title, isActive |-> active, updatedAt |-> at]

\* injective sequences over S: the orders a snapshot can list distinct links in
DistinctSeqs(S) ==
  UNION { { s \in [1..n -> S] : \A a, b \in 1..n : a # b => s[a] # s[b] }
          : n \in 0..Cardinality(S) }

\* snapshots updateDatabase can be handed: distinct hrefs, normalised titles
SnapshotJobs ==
  { [k \in 1..Len(ls) |-> [href |-> ls[k], title |-> t]]
    : ls \in DistinctSeqs(Links), t \in {norm(<<"a">>)} }

PayloadLinks(pl) == {pl.jobs[k].href : k \in 1..Len(pl.jobs)}

NoPayload == [scraped_at |-> 0, count |-> 0, jobs |-> <<>>]

\* tables a run can find: rows written earlier, possibly by a writer whose
\* clock runs ahead (updated_at up to MaxSkew)
InitTables ==
  [Links -> {Absent} \cup { Row(<<"o">>, a, at) : a \in BOOLEAN, at \in {0, MaxSkew} }]

\* supabase.from('jobs').upsert(rows, {onConflict: 'url', ignoreDuplicates: false})
Upsert(t, rows) ==
  [u \in Links |->
     IF \E k \in 1..Len(rows) : rows[k].url = u
     THEN LET k == CHOOSE k \in 1..Len(rows) :
                     rows[k].url = u /\ \A m \in (k+1)..Len(rows) : rows[m].url # u
          IN Row(rows[k].title, rows[k].is_active, rows[k].updated_at)
     ELSE t[u]]

\* supabase.from('jobs').update({is_active: false}) over the rows a filter selects
SetInactive(t, sel) ==
  [u \in Links |-> IF sel[u] THEN [t[u] EXCEPT !.isActive = FALSE] ELSE t[u]]

\* index.js: .eq('is_active', true)
ActiveFilter(t) == [u \in Links |-> t[u].present /\ t[u].isActive]

\* part000: .eq('is_active', true).lt('updated_at', seenAt)
StaleFilterLe(t, seenAt) ==
  [u \in Links |-> t[u].present /\ t[u].isActive /\ t[u].updatedAt <= seenAt]

StaleFilter(t, seenAt) ==
  [u \in Links |-> t[u].present /\ t[u].isActive /\ t[u].updatedAt < seenAt]

\* part000: const rows = payload.jobs.map(...), updated_at: seenAt
ChunkRows(pl) ==
  [k \in 1..Len(pl.jobs) |->
     [url |-> pl.jobs[k].href, title |-> pl.jobs[k].title,
      is_active |-> TRUE, updated_at |-> pl.scraped_at]]

\* index.js: the row of one upsert, updated_at: new Date()
JobRow(job, now) ==
  [url |-> job.href, title |-> job.title, is_active |-> TRUE, updated_at |-> now]

\* rows.slice(i, i + CHUNK)
Slice(rows, i) == SubSeq(rows, i + 1, Min(i + CHUNK, Len(rows)))

NoRec == [href |-> "", title |-> <<>>]

\* the parts of the state a specification does not drive
SiteFree == site = <<>> /\ shown = 0

MainIdle ==
  /\ mpc = "off" /\ creds = TRUE /\ exitCode = -1 /\ logged = FALSE
  /\ artifact = FALSE /\ posts = 0

NoResult == [kind |-> "none", jobs |-> <<>>, at |-> "none"]

PageIdle == ppc = "off" /\ waits = {} /\ pageResult = NoResult

ConcIdle == conc = <<>>

TextIdle == input = Null /\ output = <<>>

CrawlIdle ==
  /\ cpc = "off" /\ browser = "none" /\ context = "none" /\ page = "none"
  /\ allJobsMap = <<>> /\ pageIndex = 0 /\ pageOffset = 0 /\ p = 0
  /\ seenOffsets = {} /\ loads = <<>> /\ sizes = <<>> /\ firstSeen = <<>>
  /\ lastSeen = [u \in Links |-> NoRec] /\ ctl = "none" /\ grew = TRUE /\ released = <<>>
  /\ outcome = "none" /\ resighted = FALSE

InitStore ==
  /\ script \in {"index", "part000"}
  /\ mode = "offset"
  /\ table \in InitTables
  /\ clock = 0
  /\ payload = NoPayload
  /\ upc = "idle"
  /\ idx = 0
  /\ pre = table
  /\ err = FALSE
  /\ ops = <<>>
  /\ runs = 0
  /\ seeded = (\E u \in Links : table[u].present)
  /\ CrawlIdle
  /\ SiteFree /\ MainIdle /\ PageIdle /\ ConcIdle /\ TextIdle

\* main(): the crawl returned a snapshot stamped scraped_at = new Date() and
\* updateDatabase(payload) is entered
StartRun ==
  /\ upc \in {"idle", "exit0", "exit1"}
  /\ clock < MaxClock
  /\ \E t \in {clock + 1}, jobs \in SnapshotJobs :
       /\ clock' = t
       /\ payload' = [scraped_at |-> t, count |-> Len(jobs), jobs |-> jobs]
       /\ upc' = IF script = "index" THEN "deactivate"
                 ELSE IF Len(jobs) = 0 THEN "deactivate" ELSE "upsert"
  /\ idx' = 0
  /\ pre' = table
  /\ err' = FALSE
  /\ ops' = <<>>
  /\ runs' = runs + 1
  /\ UNCHANGED <<moreVars, script, mode, table, seeded, crawlVars>>

\* index.js: update({is_active: false}).eq('is_active', true); the result's
\* error is not read
IndexDeactivateAll ==
  /\ script = "index" /\ upc = "deactivate"
  /\ \/ table' = SetInactive(table, ActiveFilter(table)) /\ err' = err
     \/ table' = table /\ err' = TRUE
  /\ ops' = Append(ops, "deactivate")
  /\ idx' = 0
  /\ upc' = IF Len(payload.jobs) = 0 THEN "exit0" ELSE "upsert"
  /\ UNCHANGED <<moreVars, script, mode, clock, payload, pre, runs, seeded, crawlVars>>

\* index.js: one iteration of for (const job of payload.jobs); the result's
\* error is not read
IndexUpsertJob ==
  /\ script = "index" /\ upc = "upsert"
  /\ \E now \in clock..Min(clock + 1, MaxClock) :
       /\ clock' = now
       /\ \/ table' = Upsert(table, <<JobRow(payload.jobs[idx + 1], now)>>) /\ err' = err
          \/ table' = table /\ err' = TRUE
  /\ ops' = Append(ops, "upsert")
  /\ idx' = idx + 1
  /\ upc' = IF idx + 1 < Len(payload.jobs) THEN "upsert" ELSE "exit0"
  /\ UNCHANGED <<moreVars, script, mode, payload, pre, runs, seeded, crawlVars>>

\* part000: one iteration of for (i = 0; i < rows.length; i += CHUNK)
Part000UpsertChunk ==
  /\ script = "part000" /\ upc = "upsert"
  /\ ops' = Append(ops, "upsert")
  /\ \/ /\ table' = Upsert(table, Slice(ChunkRows(payload), idx))
        /\ idx' = idx + CHUNK
        /\ upc' = IF idx + CHUNK < Len(payload.jobs) THEN "upsert" ELSE "deactivate"
        /\ err' = err
     \/ /\ table' = table          \* if (error) throw error
        /\ idx' = idx
        /\ upc' = "exit1"
        /\ err' = TRUE
  /\ UNCHANGED <<moreVars, script, mode, clock, payload, pre, runs, seeded, crawlVars>>

\* part000: update({is_active: false}).eq('is_active', true).lt('updated_at', seenAt)
Part000DeactivateStale ==
  /\ script = "part000" /\ upc = "deactivate"
  /\ ops' = Append(ops, "deactivate")
  /\ \/ /\ table' = SetInactive(table, StaleFilter(table, payload.scraped_at))
        /\ upc' = "exit0"
        /\ err' = err
     \/ /\ table' = table          \* if (deactErr) throw deactErr
        /\ upc' = "exit1"
        /\ err' = TRUE
  /\ UNCHANGED <<moreVars, script, mode, clock, payload, idx, pre, runs, seeded, crawlVars>>

NextStore ==
  \/ StartRun
  \/ IndexDeactivateAll
  \/ IndexUpsertJob
  \/ Part000UpsertChunk
  \/ Part000DeactivateStale

SpecStore == InitStore /\ [][NextStore]_vars

(***************************************************************************)
(* Claims about reconciliation (checked under SpecStore).                  *)
(***************************************************************************)
InRun == upc # "idle"

\* updateDatabase returned and no store operation reported an error
Completed == upc = "exit0" /\ ~err

Watermark == payload.scraped_at

ActiveSet(t) == {u \in Links : t[u].present /\ t[u].isActive}

AllOlder(t, at) == \A u \in Links : t[u].present => t[u].updatedAt < at

DeactivationLast ==
  /\ \A j, k \in 1..Len(ops) : (j < k /\ ops[j] = "deactivate") => ops[k] # "upsert"
  /\ (\E k \in 1..Len(ops) : ops[k] = "deactivate") => idx >= Len(payload.jobs)

\* C1: in every direct-store script, within one run the deactivation update
\* is issued only after every upsert of the snapshot has completed: no
\* deactivation step precedes or falls between upsert steps.
C1_DeactivationAfterUpserts == InRun => DeactivationLast

\* the same ordering, for the watermark script alone
C1_Part000 == (InRun /\ script = "part000") => DeactivationLast

SnapshotStaysActive ==
  \A u \in PayloadLinks(payload) :
     (pre[u].present /\ pre[u].isActive) => (table[u].present /\ table[u].isActive)

\* C2: in every direct-store script, at every intermediate state of a run a
\* row that was active before the run and whose url is in the snapshot is
\* still active (so never are all rows inactive while such a row exists).
C2_SnapshotRecordsStayActive == InRun => SnapshotStaysActive

C2_Part000 == (InRun /\ script = "part000") => SnapshotStaysActive

\* C3: after a run with watermark T completes without error, every row that
\* was active before the run, is absent from the snapshot and has
\* updatedAt < T is inactive; and for sequential runs with strictly
\* increasing watermarks (every earlier row is older than T, which is what
\* such runs produce on a table they alone write) the active rows after the
\* run are exactly the links of the run's snapshot.
C3_StaleDeactivated ==
  /\ Completed =>
       \A u \in Links \ PayloadLinks(payload) :
          (pre[u].present /\ pre[u].isActive /\ pre[u].updatedAt < Watermark)
             => ~table[u].isActive
  /\ (Completed /\ AllOlder(pre, Watermark)) => ActiveSet(table) = PayloadLinks(payload)
  /\ (InRun /\ ~seeded) => AllOlder(pre, Watermark)

\* {A,B} at T1 then {B,C} at T2 > T1: A inactive, B and C active
C3_Witness ==
  /\ script = "part000" /\ Completed /\ ~seeded /\ runs = 2
  /\ PayloadLinks(payload) = {"B", "C"}
  /\ ActiveSet(pre) = {"A", "B"}
  /\ table["A"].present /\ ~table["A"].isActive
  /\ ActiveSet(table) = {"B", "C"}

SnapshotPersisted ==
  \A k \in 1..Len(payload.jobs) :
     table[payload.jobs[k].href] = Row(payload.jobs[k].title, TRUE, Watermark)

\* C4: after a run with watermark T completes without error, every record of
\* the snapshot is persisted under its url with isActive = true and
\* updatedAt exactly T.
C4_SnapshotPersistedAtWatermark == Completed => SnapshotPersisted

C4_Part000 == (Completed /\ script = "part000") => SnapshotPersisted

NewerUntouched ==
  \A u \in Links \ PayloadLinks(payload) :
     (pre[u].present /\ pre[u].updatedAt >= Watermark) => table[u] = pre[u]

\* C5: a run with watermark T leaves every row that is absent from the
\* snapshot and has updatedAt >= T completely unchanged.
C5_NewerRowsUntouched == InRun => NewerUntouched

C5_Part000 == (InRun /\ script = "part000") => NewerUntouched

(***************************************************************************)
(* The crawl: scrapeJobs (index.js, part000) and scrapeAll (part001).      *)
(***************************************************************************)
\* what scrapePage can return: records with distinct hrefs (its own Map),
\* each with a non-empty trimmed title
Batches ==
  UNION { { [k \in 1..Len(ls) |-> [href |-> ls[k], title |-> tf[ls[k]]]]
            : tf \in [Links -> RawTitles] }
          : ls \in DistinctSeqs(Links) }

\* scrapePage(page, url): page.goto or a wait throws, or a batch is returned
\* (empty when no job link mounted)
ScrapeResults ==
  {[kind |-> "throw", jobs |-> <<>>]} \cup {[kind |-> "jobs", jobs |-> b] : b \in Batches}

HasKey(m, href) == \E k \in 1..Len(m) : m[k].href = href

MapSetFirstWins(m, rec) ==
  IF HasKey(m, rec.href) THEN m ELSE Append(m, rec)

\* Map.prototype.set(j.href, j): an existing key keeps its position and takes
\* the new value, a new key is appended
MapSet(m, rec) ==
  IF HasKey(m, rec.href)
  THEN [k \in 1..Len(m) |-> IF m[k].href = rec.href THEN rec ELSE m[k]]
  ELSE Append(m, rec)

RECURSIVE MergeBatch(_, _)
\* jobs.forEach(j => allJobsMap.set(j.href, j))
MergeBatch(m, jobs) ==
  IF jobs = <<>> THEN m ELSE MergeBatch(MapSet(m, Head(jobs)), Tail(jobs))

ShortPageLe(jobs) == Len(jobs) <= PAGE_SIZE

\* if (jobs.length < PAGE_SIZE) break
ShortPage(jobs) == Len(jobs) < PAGE_SIZE

NextLoopGoesOnLate(q) == q <= MAX_PAGES + 1

\* part001 next mode: the for condition p <= MAX_PAGES
NextLoopGoesOn(q) == q <= MAX_PAGES

\* Array.from(allJobsMap.values()).map(j => ({title: norm(j.title), ..., href}))
Normalised(m) == [k \in 1..Len(m) |-> [href |-> m[k].href, title |-> norm(m[k].title)]]

\* ---- history of the sightings, kept apart from the Map
SightFirst(fs, jobs) ==
  fs \o SelectSeq([k \in 1..Len(jobs) |-> jobs[k].href], LAMBDA h : h \notin Range(fs))

SightLast(ls, jobs) ==
  [u \in Links |->
     IF \E k \in 1..Len(jobs) : jobs[k].href = u
     THEN (CHOOSE r \in Range(jobs) : r.href = u)
     ELSE ls[u]]

BringsNew(fs, jobs) == \E k \in 1..Len(jobs) : jobs[k].href \notin Range(fs)

StoreIdle ==
  /\ table = [u \in Links |-> Absent] /\ clock = 0 /\ payload = NoPayload
  /\ upc = "idle" /\ idx = 0 /\ pre = table /\ err = FALSE /\ ops = <<>>
  /\ runs = 0 /\ seeded = FALSE

InitCrawl ==
  /\ script \in {"index", "part000", "part001"}
  /\ mode \in {"offset", "next"}
  /\ mode = "next" => script = "part001"
  /\ StoreIdle
  /\ cpc = "launch" /\ browser = "none" /\ context = "none" /\ page = "none"
  /\ allJobsMap = <<>> /\ pageIndex = 0 /\ pageOffset = 0 /\ p = 0
  /\ seenOffsets = {} /\ loads = <<>> /\ sizes = <<>> /\ firstSeen = <<>>
  /\ lastSeen = [u \in Links |-> NoRec] /\ ctl = "none" /\ grew = TRUE
  /\ released = <<>> /\ outcome = "none" /\ resighted = FALSE
  /\ SiteFree /\ MainIdle /\ PageIdle /\ ConcIdle /\ TextIdle

resVars == <<browser, context, page, released>>
loopVars == <<pageIndex, pageOffset, p, seenOffsets>>
sightVars == <<allJobsMap, firstSeen, lastSeen, sizes, grew, resighted>>

\* const browser = await chromium.launch()
Launch ==
  /\ cpc = "launch"
  /\ \/ browser' = "open" /\ cpc' = "newContext"
     \/ browser' = browser /\ cpc' = "thrown"
  /\ UNCHANGED <<moreVars, script, mode, storeVars, context, page, released, loopVars,
                 sightVars, loads, ctl, outcome>>

\* const context = await browser.newContext(...)
NewContext ==
  /\ cpc = "newContext"
  /\ \/ context' = "open" /\ cpc' = (IF script = "part001" THEN "route" ELSE "newPage")
     \/ context' = context /\ cpc' = "thrown"
  /\ UNCHANGED <<moreVars, script, mode, storeVars, browser, page, released, loopVars,
                 sightVars, loads, ctl, outcome>>

\* part001: await context.route('**/*', ...)
Route ==
  /\ cpc = "route"
  /\ cpc' \in {"newPage", "thrown"}
  /\ UNCHANGED <<moreVars, script, mode, storeVars, resVars, loopVars, sightVars, loads, ctl,
                 outcome>>

\* const page = await context.newPage(); on success the try block is entered
NewPage ==
  /\ cpc = "newPage"
  /\ \/ page' = "open" /\ cpc' = (IF mode = "next" THEN "first" ELSE "loop")
     \/ page' = page /\ cpc' = "thrown"
  /\ UNCHANGED <<moreVars, script, mode, storeVars, browser, context, released, loopVars,
                 sightVars, loads, ctl, outcome>>

\* the effect of one extracted batch on the Map and on the history
Merged(jobs) ==
  /\ allJobsMap' = MergeBatch(allJobsMap, jobs)
  /\ firstSeen' = SightFirst(firstSeen, jobs)
  /\ lastSeen' = SightLast(lastSeen, jobs)
  /\ sizes' = Append(sizes, Len(jobs))
  /\ grew' = BringsNew(firstSeen, jobs)
  /\ resighted' = (resighted \/ \E k \in 1..Len(jobs) :
                      /\ lastSeen[jobs[k].href] # NoRec
                      /\ lastSeen[jobs[k].href] # jobs[k])

\* an exception inside the try block: control goes to finally
Throws ==
  /\ outcome' = "throw"
  /\ cpc' = "closePage"

\* index.js: one iteration of while (hasMore); the loop has no page ceiling,
\* the model stops following it one load past MAX_PAGES
IndexLoop ==
  /\ script = "index" /\ cpc = "loop"
  /\ Len(loads) <= MAX_PAGES
  /\ loads' = Append(loads, pageOffset)
  /\ \E r \in ScrapeResults :
       IF r.kind = "throw"
       THEN Throws /\ UNCHANGED <<sightVars, pageOffset>>
       ELSE IF Len(r.jobs) = 0
       THEN /\ cpc' = "assemble"
            /\ sizes' = Append(sizes, 0)
            /\ UNCHANGED <<allJobsMap, firstSeen, lastSeen, grew, resighted, pageOffset, outcome>>
       ELSE /\ Merged(r.jobs)
            /\ pageOffset' = pageOffset + PAGE_SIZE
            /\ cpc' = (IF ShortPage(r.jobs) THEN "assemble" ELSE "loop")
            /\ outcome' = outcome
  /\ UNCHANGED <<moreVars, script, mode, storeVars, resVars, pageIndex, p, seenOffsets, ctl>>

\* part000: one iteration of for (pageIndex = 0; pageIndex < MAX_PAGES; pageIndex++)
Part000Loop ==
  /\ script = "part000" /\ cpc = "loop"
  /\ pageIndex < MAX_PAGES
  /\ LET offset == pageIndex * PAGE_SIZE
         goesOn == IF pageIndex + 1 < MAX_PAGES THEN "loop" ELSE "assemble"
     IN IF offset \in seenOffsets
        THEN /\ cpc' = "assemble"
             /\ UNCHANGED <<sightVars, loads, seenOffsets, pageIndex, outcome>>
        ELSE /\ seenOffsets' = seenOffsets \cup {offset}
             /\ loads' = Append(loads, offset)
             /\ \E r \in ScrapeResults :
                  IF r.kind = "throw"
                  THEN Throws /\ UNCHANGED <<sightVars, pageIndex>>
                  ELSE IF Len(r.jobs) = 0
                  THEN /\ cpc' = "assemble"
                       /\ sizes' = Append(sizes, 0)
                       /\ UNCHANGED <<allJobsMap, firstSeen, lastSeen, grew, resighted,
                                      pageIndex, outcome>>
                  ELSE /\ Merged(r.jobs)
                       /\ IF ShortPage(r.jobs)
                          THEN cpc' = "assemble" /\ pageIndex' = pageIndex
                          ELSE cpc' = goesOn /\ pageIndex' = pageIndex + 1
                       /\ outcome' = outcome
  /\ UNCHANGED <<moreVars, script, mode, storeVars, resVars, pageOffset, p, ctl>>

\* part001, offset mode: one iteration of the for loop
Part001OffsetLoop ==
  /\ script = "part001" /\ mode = "offset" /\ cpc = "loop"
  /\ pageIndex < MAX_PAGES
  /\ loads' = Append(loads, pageIndex * PAGE_SIZE)
  /\ \E r \in ScrapeResults :
       IF r.kind = "throw"
       THEN Throws /\ UNCHANGED <<sightVars, pageIndex>>
       ELSE IF Len(r.jobs) = 0
       THEN /\ cpc' = "assemble"
            /\ sizes' = Append(sizes, 0)
            /\ UNCHANGED <<allJobsMap, firstSeen, lastSeen, grew, resighted, pageIndex,
                           outcome>>
       ELSE /\ Merged(r.jobs)
            /\ IF ShortPage(r.jobs)
               THEN cpc' = "assemble" /\ pageIndex' = pageIndex
               ELSE /\ cpc' = (IF pageIndex + 1 < MAX_PAGES THEN "loop" ELSE "assemble")
                    /\ pageIndex' = pageIndex + 1
            /\ outcome' = outcome
  /\ UNCHANGED <<moreVars, script, mode, storeVars, resVars, pageOffset, p, seenOffsets, ctl>>

\* ---- a scripted site for the next mode: the pages behind one URL, in order
\* the listing cut into consecutive pages: pg gives each record its page
Pages(full, pg, n) ==
  [j \in 1..n |-> SelectSeq(full, LAMBDA r : \E k \in 1..Len(full) : full[k] = r /\ pg[k] = j)]

\* sites that keep one URL: 1..MAX_PAGES non-empty pages, no link on two pages
StableSites ==
  UNION { UNION { { Pages(full, pg, n) :
                      pg \in { f \in [1..Len(full) -> 1..n] :
                                 /\ \A j \in 1..n : \E k \in 1..Len(full) : f[k] = j
                                 /\ \A k \in 1..(Len(full) - 1) : f[k] <= f[k + 1] } }
                  : n \in 1..Min(MAX_PAGES, Len(full)) }
          : full \in Batches \ {<<>>} }

\* what scrapePage returns: anything on a free site, the shown page otherwise
SiteAnswers(k) ==
  IF site = <<>> THEN ScrapeResults ELSE {[kind |-> "jobs", jobs |-> site[k]]}

\* the next control: enabled on every page of a scripted site but the last
ControlAnswers ==
  IF site = <<>> THEN {"absent", "disabled", "enabled", "throw"}
  ELSE {IF shown < Len(site) THEN "enabled" ELSE "disabled"}

\* the page shown after page.goto(url): BASE_URL shows the first page
AfterGotoBase == IF site = <<>> THEN shown ELSE 1

\* the page shown after the click reached page k and scrapePage then called
\* page.goto(page.url()): the URL did not change with the click, so the site
\* serves the first page again, or page k if it keeps the position itself
AfterClickAndGoto(k) == IF site = <<>> THEN {shown} ELSE {1, k}

crawlFrame == <<site, mainVars, pageVars, conc, textVars>>

\* part001, next mode: the first page, let jobs = await scrapePage(page, BASE_URL)
Part001First ==
  /\ script = "part001" /\ mode = "next" /\ cpc = "first"
  /\ loads' = Append(loads, 1)
  /\ shown' = AfterGotoBase
  /\ \E r \in SiteAnswers(shown') :
       IF r.kind = "throw"
       THEN Throws /\ UNCHANGED <<sightVars, p>>
       ELSE /\ Merged(r.jobs)
            /\ p' = 2
            /\ cpc' = (IF NextLoopGoesOn(2) THEN "control" ELSE "assemble")
            /\ outcome' = outcome
  /\ UNCHANGED <<crawlFrame, script, mode, storeVars, resVars, pageIndex, pageOffset,
                 seenOffsets, ctl>>

\* part001, next mode: locate the next control; absent or disabled ends the loop
Part001Control ==
  /\ script = "part001" /\ mode = "next" /\ cpc = "control"
  /\ \E c \in ControlAnswers :
       IF c = "throw"                          \* next.count() rejects
       THEN Throws /\ ctl' = ctl
       ELSE /\ ctl' = c
            /\ cpc' = (IF c = "enabled" THEN "click" ELSE "assemble")
            /\ outcome' = outcome
  /\ UNCHANGED <<moreVars, script, mode, storeVars, resVars, loopVars, sightVars, loads>>

\* part001, next mode: click, then scrapePage(page, page.url()) and the merge
Part001Click ==
  /\ script = "part001" /\ mode = "next" /\ cpc = "click"
  /\ loads' = Append(loads, p)
  /\ \E k \in AfterClickAndGoto(shown + 1) :
      /\ shown' = k
      /\ \E r \in SiteAnswers(k) :
          IF r.kind = "throw"
          THEN Throws /\ UNCHANGED <<sightVars, p>>
          ELSE IF Len(r.jobs) = 0
          THEN /\ cpc' = "assemble"
               /\ sizes' = Append(sizes, 0)
               /\ grew' = FALSE
               /\ UNCHANGED <<allJobsMap, firstSeen, lastSeen, resighted, p, outcome>>
          ELSE /\ Merged(r.jobs)
               /\ IF Len(allJobsMap') = Len(allJobsMap)
                  THEN cpc' = "assemble" /\ p' = p
                  ELSE /\ cpc' = (IF NextLoopGoesOn(p + 1) THEN "control" ELSE "assemble")
                       /\ p' = p + 1
               /\ outcome' = outcome
  /\ UNCHANGED <<crawlFrame, script, mode, storeVars, resVars, pageIndex, pageOffset,
                 seenOffsets, ctl>>

\* the snapshot: scraped_at: new Date(), count: allJobs.length, jobs normalised
Assemble ==
  /\ cpc = "assemble"
  /\ payload' = [scraped_at |-> clock, count |-> Len(allJobsMap),
                 jobs |-> Normalised(allJobsMap)]
  /\ outcome' = "return"
  /\ cpc' = "closePage"
  /\ UNCHANGED <<moreVars, script, mode, table, clock, upc, idx, pre, err, ops, runs, seeded,
                 resVars, loopVars, sightVars, loads, ctl>>

\* finally: await page.close().catch(()=>{})
ClosePage ==
  /\ cpc = "closePage"
  /\ page' = "closed"
  /\ released' = Append(released, "page")
  /\ cpc' = "closeContext"
  /\ UNCHANGED <<moreVars, script, mode, storeVars, browser, context, loopVars, sightVars, loads,
                 ctl, outcome>>

\* finally: await context.close().catch(()=>{})
CloseContext ==
  /\ cpc = "closeContext"
  /\ context' = "closed"
  /\ released' = Append(released, "context")
  /\ cpc' = "closeBrowser"
  /\ UNCHANGED <<moreVars, script, mode, storeVars, browser, page, loopVars, sightVars, loads,
                 ctl, outcome>>

\* finally: await browser.close().catch(()=>{}); then the return or the rethrow
CloseBrowser ==
  /\ cpc = "closeBrowser"
  /\ browser' = "closed"
  /\ released' = Append(released, "browser")
  /\ cpc' = (IF outcome = "return" THEN "returned" ELSE "thrown")
  /\ UNCHANGED <<moreVars, script, mode, storeVars, context, page, loopVars, sightVars, loads,
                 ctl, outcome>>

NextCrawl ==
  \/ Launch
  \/ NewContext
  \/ Route
  \/ NewPage
  \/ IndexLoop
  \/ Part000Loop
  \/ Part001OffsetLoop
  \/ Part001First
  \/ Part001Control
  \/ Part001Click
  \/ Assemble
  \/ ClosePage
  \/ CloseContext
  \/ CloseBrowser

SpecCrawl == InitCrawl /\ [][NextCrawl]_vars

(***************************************************************************)
(* Claims about the crawl (checked under SpecCrawl).                       *)
(***************************************************************************)
Exited == cpc \in {"returned", "thrown"}

\* the pagination loop was left by break or by its condition, not by a throw
LoopLeft == cpc = "assemble" \/ outcome = "return"

Last(s) == s[Len(s)]

\* C6: in offset mode the crawl issues at most MAX_PAGES page loads whatever
\* the site answers, in every script.
C6_OffsetLoadsCapped == mode = "offset" => Len(loads) <= MAX_PAGES

\* the ceiling, for the two scripts that have one
C6_Capped == (mode = "offset" /\ script # "index") => Len(loads) <= MAX_PAGES

\* C7: in offset mode with page size P the loads are at offsets 0, P, 2P, ...;
\* a load is issued only while every earlier page was full (not empty, not
\* short, offset not visited before), and the loop is left only at such a
\* page or at the page ceiling.
C7_OffsetStopsAtFirstShortPage ==
  mode = "offset" =>
    /\ \A k \in 1..Len(loads) : loads[k] = (k - 1) * PAGE_SIZE
    /\ \A k \in 1..(Len(loads) - 1) : sizes[k] > 0 /\ sizes[k] >= PAGE_SIZE
    /\ LoopLeft =>
         /\ Len(sizes) = Len(loads) /\ sizes # <<>>
         /\ \/ Last(sizes) = 0
            \/ Last(sizes) < PAGE_SIZE
            \/ Len(loads) = MAX_PAGES

\* pages of P and 1 links: P + 1 distinct records and no third load
C7_Witness ==
  /\ mode = "offset" /\ script # "index" /\ cpc = "returned"
  /\ sizes = <<PAGE_SIZE, 1>>
  /\ loads = <<0, PAGE_SIZE>>
  /\ payload.count = PAGE_SIZE + 1

NextModeStops ==
  /\ Len(loads) <= MAX_PAGES
  /\ cpc = "click" => ctl = "enabled"
  /\ ctl \in {"absent", "disabled"} => cpc \notin {"control", "click"}
  /\ (cpc \in {"control", "click"} /\ Len(sizes) >= 2) => (Last(sizes) > 0 /\ grew)
  /\ \A k \in 2..(Len(loads) - 1) : sizes[k] > 0

\* steps the next-mode crawl can still take: it falls with every step
NextModeRank ==
  LET left == 2 * (MAX_PAGES - Len(loads))
  IN CASE cpc = "launch" -> left + 10
       [] cpc = "newContext" -> left + 9
       [] cpc = "route" -> left + 8
       [] cpc = "newPage" -> left + 7
       [] cpc = "first" -> left + 6
       [] cpc = "control" -> left + 6
       [] cpc = "click" -> left + 5
       [] cpc = "assemble" -> 4
       [] cpc = "closePage" -> 3
       [] cpc = "closeContext" -> 2
       [] cpc = "closeBrowser" -> 1
       [] OTHER -> 0

\* C8: in next-button mode the crawl terminates for any site behaviour: it
\* goes on to a click only while the control is present and enabled and the
\* last batch extracted after a click was non-empty and brought a new link,
\* it extracts at most MAX_PAGES pages, the first included, and every step
\* lowers a non-negative rank, so no run takes more than finitely many steps.
C8_NextModeTerminates ==
  /\ [](mode = "next" => (NextModeStops /\ NextModeRank >= 0))
  /\ [][mode = "next" => NextModeRank' < NextModeRank]_vars

\* a crawl that clicked twice and was stopped by a batch with nothing new
C8_Witness ==
  /\ mode = "next" /\ cpc = "returned"
  /\ Len(loads) = MAX_PAGES /\ ~grew /\ Last(sizes) > 0 /\ ctl = "enabled"

\* C9: the snapshot lists each link seen in any batch exactly once, in the
\* order of first sighting, with the (normalised) fields of its last
\* sighting, and count is the length of jobs.
C9_SnapshotAggregates ==
  outcome = "return" =>
    /\ payload.count = Len(payload.jobs)
    /\ \A a, b \in 1..Len(payload.jobs) :
          a # b => payload.jobs[a].href # payload.jobs[b].href
    /\ [k \in 1..Len(payload.jobs) |-> payload.jobs[k].href] = firstSeen
    /\ \A k \in 1..Len(payload.jobs) :
          payload.jobs[k].title = norm(lastSeen[payload.jobs[k].href].title)

\* a snapshot of several links, one of them sighted again with another title
C9_Witness ==
  /\ cpc = "returned" /\ resighted /\ Len(payload.jobs) = 3 /\ Len(loads) >= 2
  /\ \E k \in 1..Len(payload.jobs) : payload.jobs[k].title # lastSeen[payload.jobs[k].href].title

Acquired ==
  SelectSeq(<<"page", "context", "browser">>,
            LAMBDA r : (r = "page" /\ page # "none") \/ (r = "context" /\ context # "none")
                       \/ (r = "browser" /\ browser # "none"))

AllReleased ==
  /\ browser # "open" /\ context # "open" /\ page # "open"
  /\ released = Acquired

\* C10: on every exit path of the crawl function every acquired resource is
\* released, in the order page, context, browser.
C10_ResourcesReleased == Exited => AllReleased

\* the same, for the exits that go through the try block
C10_TryPaths == (Exited /\ outcome # "none") => AllReleased

(***************************************************************************)
(* main(): the script's top level, the crawl, the sink steps, the exit.    *)
(***************************************************************************)
\* tables a whole run is checked against: an empty one, and one with a stale
\* active row, a row stamped ahead of the run and an inactive row
MainTables ==
  { [u \in Links |-> Absent],
    [u \in Links |-> CASE u = "A" -> Row(<<"o">>, TRUE, 0)
                       [] u = "B" -> Row(<<"o">>, TRUE, MaxSkew)
                       [] OTHER -> Row(<<"o">>, FALSE, 0)] }

InitMain ==
  /\ script \in {"index", "part000", "part001"}
  /\ mode \in {"offset", "next"}
  /\ mode = "next" => script = "part001"
  /\ table \in MainTables
  /\ clock = MaxClock
  /\ payload = NoPayload
  /\ upc = "idle" /\ idx = 0 /\ pre = table /\ err = FALSE /\ ops = <<>>
  /\ runs = 0
  /\ seeded = (\E u \in Links : table[u].present)
  /\ CrawlIdle
  /\ SiteFree /\ PageIdle /\ ConcIdle /\ TextIdle
  /\ mpc = "start"
  /\ creds \in BOOLEAN
  /\ exitCode = -1 /\ logged = FALSE /\ artifact = FALSE /\ posts = 0

\* the direct-store scripts check the credentials when the module loads
ChecksAtLoad(sc) == sc \in {"index", "part000"}

\* module top level: if (!supabaseUrl || !supabaseKey) process.exit(1);
\* otherwise main() runs and calls the crawl
TopLevel ==
  /\ mpc = "start"
  /\ IF ChecksAtLoad(script) /\ ~creds
     THEN mpc' = "exited" /\ exitCode' = 1 /\ cpc' = cpc
     ELSE mpc' = "crawl" /\ exitCode' = exitCode /\ cpc' = "launch"
  /\ UNCHANGED <<script, mode, storeVars, browser, context, page, allJobsMap,
                 pageIndex, pageOffset, p, seenOffsets, loads, sizes, firstSeen,
                 lastSeen, ctl, grew, resighted, released, outcome, siteVars,
                 creds, logged, artifact, posts, pageVars, conc, textVars>>

AfterCrawlSwallow(c) == "sink"

\* const payload = await scrapeJobs(): a rejection goes to catch
AfterCrawl(c) == IF c = "returned" THEN "sink" ELSE "catch"

UpdateEntrySkipEmpty(sc, jobs) ==
  IF Len(jobs) = 0 THEN "exit0"
  ELSE IF sc = "index" THEN "deactivate" ELSE "upsert"

\* where updateDatabase starts: index.js deactivates first; part000 enters
\* the chunk loop, which an empty snapshot skips
UpdateEntry(sc, jobs) ==
  IF sc = "index" THEN "deactivate"
  ELSE IF Len(jobs) = 0 THEN "deactivate" ELSE "upsert"

\* main(): after the crawl, the first sink step
CrawlSettled ==
  /\ mpc = "crawl" /\ cpc \in {"returned", "thrown"}
  /\ IF AfterCrawl(cpc) = "catch"
     THEN mpc' = "catch" /\ UNCHANGED <<upc, pre, runs>>
     ELSE IF script = "part001"
     THEN mpc' = "save" /\ UNCHANGED <<upc, pre, runs>>
     ELSE /\ mpc' = "update"
          /\ upc' = UpdateEntry(script, payload.jobs)
          /\ pre' = table
          /\ runs' = runs + 1
  /\ UNCHANGED <<script, mode, table, clock, payload, idx, err, ops, seeded,
                 crawlVars, siteVars, creds, exitCode, logged, artifact, posts,
                 pageVars, conc, textVars>>

\* part001: saveJson(payload); mkdirSync / writeFileSync can throw
SaveJson ==
  /\ mpc = "save"
  /\ \/ artifact' = TRUE /\ mpc' = "post"
     \/ artifact' = artifact /\ mpc' = "catch"
  /\ UNCHANGED <<script, mode, storeVars, crawlVars, siteVars, creds, exitCode,
                 logged, posts, pageVars, conc, textVars>>

\* part001: postToBolt(payload): the credentials check, then the POST
PostToBolt ==
  /\ mpc = "post"
  /\ IF ~creds
     THEN mpc' = "catch" /\ UNCHANGED <<posts, err>>
     ELSE /\ posts' = posts + 1
          /\ \/ mpc' = "success" /\ err' = err       \* res.ok
             \/ mpc' = "catch" /\ err' = TRUE        \* !res.ok, or fetch rejects
  /\ UNCHANGED <<script, mode, table, clock, payload, upc, idx, pre, ops, runs,
                 seeded, crawlVars, siteVars, creds, exitCode, logged, artifact,
                 pageVars, conc, textVars>>

\* index.js, part000: await updateDatabase(payload) settled
UpdateSettled ==
  /\ mpc = "update" /\ upc \in {"exit0", "exit1"}
  /\ mpc' = (IF upc = "exit0" THEN "success" ELSE "catch")
  /\ UNCHANGED <<script, mode, storeVars, crawlVars, siteVars, creds, exitCode,
                 logged, artifact, posts, pageVars, conc, textVars>>

\* console.log(`Successfully scraped ...`); process.exit(0)
ExitSuccess ==
  /\ mpc = "success"
  /\ logged' = TRUE /\ exitCode' = 0 /\ mpc' = "exited"
  /\ UNCHANGED <<script, mode, storeVars, crawlVars, siteVars, creds, artifact,
                 posts, pageVars, conc, textVars>>

\* catch (err): console.error('Scrape failed:', ...); process.exit(1)
ExitFailure ==
  /\ mpc = "catch"
  /\ exitCode' = 1 /\ mpc' = "exited"
  /\ UNCHANGED <<script, mode, storeVars, crawlVars, siteVars, creds, logged,
                 artifact, posts, pageVars, conc, textVars>>

NextMain ==
  \/ TopLevel
  \/ NextCrawl
  \/ CrawlSettled
  \/ SaveJson
  \/ PostToBolt
  \/ IndexDeactivateAll
  \/ IndexUpsertJob
  \/ Part000UpsertChunk
  \/ Part000DeactivateStale
  \/ UpdateSettled
  \/ ExitSuccess
  \/ ExitFailure

SpecMain == InitMain /\ [][NextMain]_vars

\* C11: an error reported by any store or sink operation (an upsert, the
\* deactivation, a non-success HTTP answer) aborts the run: once an error was
\* reported the exit code is never 0, the success line is never logged, and no
\* further store operation or POST is issued (so no deactivation follows a
\* failed upsert).
C11_SinkErrorAborts ==
  /\ [](err => (exitCode # 0 /\ ~logged))
  /\ [][err => (ops' = ops /\ posts' = posts)]_vars

\* C13: with the sink credentials absent the run fails at startup: no
\* browser is launched, no page is loaded, no artifact is written and the run
\* never exits with a code other than 1.
C13_NoCredsFailsAtStartup ==
  ~creds => /\ browser = "none"
            /\ loads = <<>>
            /\ ~artifact
            /\ exitCode \in {-1, 1}

\* every sink step of the script has been carried out
UpsertSteps ==
  IF script = "index" THEN Len(payload.jobs)
  ELSE (Len(payload.jobs) + CHUNK - 1) \div CHUNK

SinkDone ==
  IF script = "part001" THEN artifact /\ posts = 1
  ELSE /\ upc = "exit0"
       /\ Len(ops) = UpsertSteps + 1
       /\ Len(SelectSeq(ops, LAMBDA o : o = "deactivate")) = 1

\* C14: when the crawl fails with an unexpected error the run issues no
\* upsert, no deactivation, writes no artifact, sends no POST and its exit code
\* is 1; exit code 0 is only produced after the crawl returned and every sink
\* step was carried out.
C14_CrawlFailureReachesNoSink ==
  /\ cpc = "thrown" => /\ ops = <<>> /\ ~artifact /\ posts = 0
                       /\ exitCode \in {-1, 1}
                       /\ mpc = "exited" => exitCode = 1
  /\ exitCode = 0 => cpc = "returned" /\ SinkDone

\* a crawl that failed after it had collected a page, and the run has exited
C14_Witness ==
  /\ cpc = "thrown" /\ mpc = "exited" /\ exitCode = 1
  /\ Len(allJobsMap) > 0

\* part000 ran to its exit after a crawl whose first page was empty
EmptyFirstPageRun ==
  /\ script = "part000" /\ mpc = "exited"
  /\ cpc = "returned" /\ sizes = <<0>>

StaleGone ==
  \A u \in Links :
    (pre[u].present /\ pre[u].isActive /\ pre[u].updatedAt < Watermark)
      => ~table[u].isActive

\* C20 (as stated): a part000 crawl whose first page is empty still
\* reconciles with an empty snapshot: no upsert is issued, every active row
\* with updatedAt < T is deactivated, and the exit code is 0.
C20_EmptySnapshotReconciles ==
  EmptyFirstPageRun =>
    /\ payload.jobs = <<>>
    /\ ops = <<"deactivate">>
    /\ StaleGone
    /\ exitCode = 0

\* C20 (amended): the same run issues no upsert and exactly one
\* deactivation; when that update reports no error every active row with
\* updatedAt < T is inactive and the exit code is 0, and when it reports an
\* error the exit code is 1.
C20_EmptySnapshotReconcilesUnlessError ==
  EmptyFirstPageRun =>
    /\ payload.jobs = <<>>
    /\ ops = <<"deactivate">>
    /\ IF err THEN exitCode = 1 ELSE StaleGone /\ exitCode = 0

\* such a run exited 0 and a stale active row was deactivated by it
C20_Witness ==
  /\ EmptyFirstPageRun /\ exitCode = 0
  /\ \E u \in Links : pre[u].present /\ pre[u].isActive /\ ~table[u].isActive

(***************************************************************************)
(* scrapePage(page, url), one await at a time.                             *)
(***************************************************************************)
InitPage ==
  /\ script \in {"index", "part000", "part001"}
  /\ mode = "offset"
  /\ table = [u \in Links |-> Absent]
  /\ clock = 0 /\ payload = NoPayload
  /\ upc = "idle" /\ idx = 0 /\ pre = table /\ err = FALSE /\ ops = <<>>
  /\ runs = 0 /\ seeded = FALSE
  /\ CrawlIdle /\ MainIdle /\ ConcIdle /\ TextIdle
  /\ \E b \in Batches : site = <<b>>      \* what the page at url holds
  /\ shown = 0
  /\ ppc = "goto" /\ waits = {} /\ pageResult = NoResult

pageFrame == <<script, mode, storeVars, crawlVars, site, mainVars, conc, textVars>>

PageThrows(step) == [kind |-> "throw", jobs |-> <<>>, at |-> step]

PageReturns(jobs) == [kind |-> "jobs", jobs |-> jobs, at |-> "none"]

\* the scripts that call acceptCookies
HasConsentStep(sc) == sc \in {"part000", "part001"}

\* the waits whose timeout the script catches: index.js awaits
\* waitForLoadState and waitForSelector bare; the other two catch every wait
Swallows(sc, w) == sc \in {"part000", "part001"}

\* await page.goto(url, {waitUntil: 'domcontentloaded', timeout: 60000})
PageGoto ==
  /\ ppc = "goto"
  /\ \/ /\ shown' = 1
        /\ ppc' = IF HasConsentStep(script) THEN "consent" ELSE "idle"
        /\ pageResult' = pageResult
     \/ /\ shown' = shown
        /\ ppc' = "thrown" /\ pageResult' = PageThrows("goto")
  /\ UNCHANGED <<pageFrame, waits>>

\* after a wait that timed out: swallowed, or the rejection leaves scrapePage
Timeout(w, next) ==
  /\ waits' = waits \cup {w}
  /\ IF Swallows(script, w)
     THEN ppc' = next /\ pageResult' = pageResult
     ELSE ppc' = "thrown" /\ pageResult' = PageThrows(w)

\* acceptCookies: no button, a click, or a click that times out
PageConsent ==
  /\ ppc = "consent"
  /\ \/ ppc' = "idle" /\ UNCHANGED <<waits, pageResult>>
     \/ Timeout("consent", "idle")
  /\ UNCHANGED <<pageFrame, shown>>

\* await page.waitForLoadState('networkidle')
PageNetworkIdle ==
  /\ ppc = "idle"
  /\ \/ ppc' = "mount" /\ UNCHANGED <<waits, pageResult>>
     \/ Timeout("idle", "mount")
  /\ UNCHANGED <<pageFrame, shown>>

\* the wait for the first job anchor: it resolves only when the page holds
\* one; on a timeout part000 / part001 return [] and index.js rejects
PageMount ==
  /\ ppc = "mount"
  /\ \/ /\ site[shown] # <<>>
        /\ ppc' = "evaluate" /\ UNCHANGED <<waits, pageResult>>
     \/ /\ waits' = waits \cup {"mount"}
        /\ IF Swallows(script, "mount")
           THEN ppc' = "returned" /\ pageResult' = PageReturns(<<>>)
           ELSE ppc' = "thrown" /\ pageResult' = PageThrows("mount")
  /\ UNCHANGED <<pageFrame, shown>>

\* const jobs = await page.evaluate(...); return jobs
PageEvaluate ==
  /\ ppc = "evaluate"
  /\ \/ ppc' = "returned" /\ pageResult' = PageReturns(site[shown])
     \/ ppc' = "thrown" /\ pageResult' = PageThrows("evaluate")
  /\ UNCHANGED <<pageFrame, shown, waits>>

NextPage ==
  \/ PageGoto
  \/ PageConsent
  \/ PageNetworkIdle
  \/ PageMount
  \/ PageEvaluate

SpecPage == InitPage /\ [][NextPage]_vars

PageDone == ppc \in {"returned", "thrown"}

\* C12: no wait timeout escalates to a failure, in any script: scrapePage
\* never rejects at a wait; after a timed-out content-visible wait it returns
\* the empty batch; and after a timed-out network-idle wait or consent click
\* the batch it returns is the page's content.
C12_NoWaitTimeoutEscalates ==
  PageDone =>
    /\ pageResult.kind = "throw" => pageResult.at \notin {"consent", "idle", "mount"}
    /\ "mount" \in waits => pageResult = PageReturns(<<>>)
    /\ (waits # {} /\ "mount" \notin waits /\ pageResult.kind = "jobs")
         => pageResult.jobs = site[shown]

(***************************************************************************)
(* The text helpers applied to arbitrary text.                             *)
(***************************************************************************)
Chars == {"a", ",", " ", "\t"}

Texts == UNION { [1..n -> Chars] : n \in 0..MaxStr }

RECURSIVE SplitAcc(_, _)
SplitAcc(s, cur) ==
  IF s = <<>> THEN <<cur>>
  ELSE IF Head(s) = "," THEN <<cur>> \o SplitAcc(Tail(s), <<>>)
  ELSE SplitAcc(Tail(s), Append(cur, Head(s)))

\* String.prototype.split(','): "" gives [""]
Split(s) == SplitAcc(s, <<>>)

\* .map(p => p.trim())
TrimAll(parts) == [k \in 1..Len(parts) |-> Trim(parts[k])]

\* .filter(Boolean): the empty string is falsy; index.js has no filter
FilterBoolean(sc, parts) ==
  IF sc = "index" THEN parts ELSE SelectSeq(parts, LAMBDA q : q # <<>>)

extractCountry(sc, location) ==
  LET parts == FilterBoolean(sc, TrimAll(Split(norm(location))))
  IN IF Len(parts) > 0 THEN parts[Len(parts)] ELSE <<>>

InitText ==
  /\ script \in {"index", "part000", "part001"}
  /\ mode = "offset"
  /\ table = [u \in Links |-> Absent]
  /\ clock = 0 /\ payload = NoPayload
  /\ upc = "idle" /\ idx = 0 /\ pre = table /\ err = FALSE /\ ops = <<>>
  /\ runs = 0 /\ seeded = FALSE
  /\ CrawlIdle /\ SiteFree /\ MainIdle /\ PageIdle /\ ConcIdle
  /\ input \in Texts \cup {Null}
  /\ output = <<>>

\* const location = norm(j.location)
ApplyNorm ==
  /\ output = <<>>
  /\ output' = <<norm(input)>>
  /\ UNCHANGED <<script, mode, storeVars, crawlVars, siteVars, mainVars, pageVars,
                 conc, input>>

\* extractCountry(location), on the same argument
ApplyExtractCountry ==
  /\ Len(output) = 1
  /\ output' = Append(output, extractCountry(script, input))
  /\ UNCHANGED <<script, mode, storeVars, crawlVars, siteVars, mainVars, pageVars,
                 conc, input>>

NextText ==
  \/ ApplyNorm
  \/ ApplyExtractCountry

SpecText == InitText /\ [][NextText]_vars

\* the last comma-separated segment of the normalised text that is not empty
\* once trimmed, or the empty text when there is none
LastNonEmptySegment(s) ==
  LET segs == TrimAll(Split(norm(s)))
      full == {k \in 1..Len(segs) : segs[k] # <<>>}
  IN IF full = {} THEN <<>>
     ELSE segs[CHOOSE k \in full : \A j \in full : j <= k]

\* C15: in every script extractCountry returns the last non-empty trimmed
\* comma segment of the normalised input, or the empty text when no segment
\* is non-empty (leading, trailing and consecutive commas included).
C15_CountryIsLastNonEmptySegment ==
  Len(output) = 2 => output[2] = LastNonEmptySegment(input)

\* C16: the normaliser yields a text for every text and for null; the result
\* has no leading or trailing whitespace and no two adjacent whitespace
\* characters, normalising it again changes nothing, and null gives the empty
\* text.
C16_NormTotalIdempotent ==
  Len(output) >= 1 =>
    LET r == output[1]
    IN /\ r # <<>> => (~IsWs(r[1]) /\ ~IsWs(r[Len(r)]))
       /\ \A k \in 1..(Len(r) - 1) : ~(IsWs(r[k]) /\ IsWs(r[k + 1]))
       /\ norm(r) = r
       /\ input = Null => r = <<>>

\* a text with an inner whitespace run was normalised
C16_Witness ==
  /\ Len(output) >= 1 /\ input # Null
  /\ \E k \in 2..(Len(input) - 2) :
       /\ IsWs(input[k]) /\ IsWs(input[k + 1])
       /\ ~IsWs(input[k - 1]) /\ ~IsWs(input[k + 2])
  /\ Len(output[1]) < Len(input)

(***************************************************************************)
(* The next mode against a site that keeps one URL for all its pages.      *)
(***************************************************************************)
InitNextSite ==
  /\ script = "part001" /\ mode = "next"
  /\ StoreIdle
  /\ cpc = "launch" /\ browser = "none" /\ context = "none" /\ page = "none"
  /\ allJobsMap = <<>> /\ pageIndex = 0 /\ pageOffset = 0 /\ p = 0
  /\ seenOffsets = {} /\ loads = <<>> /\ sizes = <<>> /\ firstSeen = <<>>
  /\ lastSeen = [u \in Links |-> NoRec] /\ ctl = "none" /\ grew = TRUE
  /\ released = <<>> /\ outcome = "none" /\ resighted = FALSE
  /\ site \in StableSites /\ shown = 0
  /\ MainIdle /\ PageIdle /\ ConcIdle /\ TextIdle

NextNextSite ==
  \/ Launch
  \/ NewContext
  \/ Route
  \/ NewPage
  \/ Part001First
  \/ Part001Control
  \/ Part001Click
  \/ Assemble
  \/ ClosePage
  \/ CloseContext
  \/ CloseBrowser

SpecNextSite == InitNextSite /\ [][NextNextSite]_vars

SiteLinks == UNION { {site[j][k].href : k \in 1..Len(site[j])} : j \in 1..Len(site) }

\* C17: in next mode, on a site that keeps its URL and has N <= MAX_PAGES
\* pages of pairwise-distinct links, every extraction reads the page the last
\* click reached (the k-th extraction reads page k) and the snapshot of a
\* returned crawl holds the links of all N pages.
C17_NextModeCollectsAllPages ==
  /\ sizes # <<>> => shown = Len(sizes)
  /\ cpc = "returned" => PayloadLinks(payload) = SiteLinks

\* C18: in next mode an empty first page stops the crawl: no click, no
\* further extraction, and nothing is collected.
C18_EmptyFirstPageStops ==
  (mode = "next" /\ sizes # <<>> /\ sizes[1] = 0)
    => /\ cpc # "click"
       /\ Len(loads) = 1
       /\ allJobsMap = <<>>

(***************************************************************************)
(* Two part000 runs reconciling against the same table, interleaved.       *)
(***************************************************************************)
ConcTables ==
  { [u \in Links |-> Absent], [u \in Links |-> Row(<<"o">>, TRUE, 0)] }

\* updateDatabase(payload) entered by one run
RunAt(t, jobs) ==
  [pc |-> UpdateEntry("part000", jobs), idx |-> 0,
   payload |-> [scraped_at |-> t, count |-> Len(jobs), jobs |-> jobs]]

InitConc ==
  /\ script = "part000" /\ mode = "offset"
  /\ table \in ConcTables
  /\ clock = 0 /\ payload = NoPayload
  /\ upc = "idle" /\ idx = 0 /\ pre = table /\ err = FALSE /\ ops = <<>>
  /\ runs = 0
  /\ seeded = (\E u \in Links : table[u].present)
  /\ CrawlIdle /\ SiteFree /\ MainIdle /\ PageIdle /\ TextIdle
  /\ \E j1, j2 \in SnapshotJobs : conc = <<RunAt(1, j1), RunAt(2, j2)>>

concFrame ==
  <<script, mode, clock, payload, upc, idx, pre, err, ops, runs, seeded, crawlVars,
    siteVars, mainVars, pageVars, textVars>>

\* one run's next chunk upsert; each request is one statement at the store
ConcUpsertChunk ==
  /\ \E r \in 1..Len(conc) :
       /\ conc[r].pc = "upsert"
       /\ \/ /\ table' = Upsert(table, Slice(ChunkRows(conc[r].payload), conc[r].idx))
             /\ conc' = [conc EXCEPT
                  ![r].idx = @ + CHUNK,
                  ![r].pc = IF conc[r].idx + CHUNK < Len(conc[r].payload.jobs)
                            THEN "upsert" ELSE "deactivate"]
          \/ /\ table' = table          \* if (error) throw error
             /\ conc' = [conc EXCEPT ![r].pc = "failed"]
  /\ UNCHANGED concFrame

\* one run's deactivation of the rows older than its own watermark
ConcDeactivateStale ==
  /\ \E r \in 1..Len(conc) :
       /\ conc[r].pc = "deactivate"
       /\ \/ /\ table' = SetInactive(table, StaleFilter(table, conc[r].payload.scraped_at))
             /\ conc' = [conc EXCEPT ![r].pc = "done"]
          \/ /\ table' = table          \* if (deactErr) throw deactErr
             /\ conc' = [conc EXCEPT ![r].pc = "failed"]
  /\ UNCHANGED concFrame

NextConc ==
  \/ ConcUpsertChunk
  \/ ConcDeactivateStale

SpecConc == InitConc /\ [][NextConc]_vars

\* C19: two part000 runs with watermarks T1 < T2 interleave their store
\* requests: once both have completed, every record of the later run's
\* snapshot is active with updatedAt = T2, and no row's updatedAt ever
\* decreases.
C19_LaterRunWins ==
  /\ []((conc[1].pc = "done" /\ conc[2].pc = "done") =>
          \A u \in PayloadLinks(conc[2].payload) :
             /\ table[u].present /\ table[u].isActive
             /\ table[u].updatedAt = conc[2].payload.scraped_at)
  /\ [][\A u \in Links : table[u].present => table'[u].updatedAt >= table[u].updatedAt]_vars

====
